---- MODULE Spec2Model ----
(***************************************************************************)
(* STL analysis pipeline of swift-prints (apps/backend).                   *)
(*                                                                         *)
(* start_analysis / AnalysisService.analyze_stl issue a job id and put one *)
(* analyze_stl_task message on the Celery queue; a worker executes the     *)
(* task body step by step (progress updates, file lookup, validation,      *)
(* workspace, slicer run, result row, cleanup) and Celery records the      *)
(* task state in the result backend; get_analysis_status reads the         *)
(* backend through celery_app.AsyncResult.                                 *)
(***************************************************************************)
EXTENDS Integers, Sequences, FiniteSets, TLC

\* ---------------------------------------------------------------- bounds
MaxJobs == 2           \* submissions explored
MaxRedeliveries == 1   \* extra deliveries of a message (SpecRedelivery only)
MaxCount == 11         \* declared triangle counts 0..MaxCount (SpecCalls)
MaxFacets == 2         \* facet blocks of a text file (SpecCalls)
MaxParts == 3          \* words of a duration string (SpecCalls)
MaxLines == 2          \* lines of an engine output artifact

\* ------------------------------------------------------- program constants
MIN_FILE_SIZE == 84
MAX_FILE_SIZE == 52428800
MAX_TRIANGLES == 1000000
HEADER_SIZE == 80
COUNT_SIZE == 4
TRIANGLE_SIZE == 50
SAMPLE_TRIANGLES == 10 \* leading triangle records the validator decodes
SECONDS_PER_HOUR == 3600
SECONDS_PER_MINUTE == 60
PLA_DENSITY == 124     \* 1.24 g/cm3, in hundredths
COMPLEXITY_SCALE == 10000 \* triangles per point of complexity score
MAX_COMPLEXITY == 5    \* largest complexity score of the written script
Concurrency == 2       \* pool processes of the worker (--concurrency=2)

VARIABLES
    jobs,         \* job_id -> [task, file]: what analyze_stl submitted
    queue,        \* messages waiting in the broker queue "analysis", oldest
                  \* first (a Redis list)
    attempts,     \* task id -> number of times its message was delivered
    redelivered,  \* number of redeliveries so far
    backend,      \* Celery result backend: task id -> task meta
    worker,       \* delivery being executed -> the worker's position in
                  \* analyze_stl_task and its locals
    workspaces,   \* job ids j for which temp_dir/j exists
    wsInput,      \* job ids j for which temp_dir/j/input.stl exists
    tmpdirs,      \* deliveries whose runner TemporaryDirectory exists
    results,      \* committed AnalysisResult rows
    obs,          \* the last response of get_analysis_status
    engineRuns,   \* job_id -> number of engine subprocess runs
    wsEver,       \* job ids whose workspace directory was ever created
    cause,        \* task id -> which step raised in its last failed run
    saves,        \* job_id -> number of AnalysisResult rows ever added
    call          \* the last direct call of a library function: its
                  \* name, argument and return value

vars == <<jobs, queue, attempts, redelivered, backend, worker, workspaces,
          wsInput, tmpdirs, results, obs, engineRuns, wsEver, cause, saves,
          call>>

\* -------------------------------------------------------------- geometry
\* A stored upload as the worker sees it: is the File row still there, does
\* storage_path exist, the file's size, what its first bytes are ("solid"
\* or anything else), the triangle count its bytes 80..83 declare, the
\* first triangle record holding a coordinate above the limit (0: none),
\* and the lines its text decodes to, each line a sequence of words.
BinarySize(n) == HEADER_SIZE + COUNT_SIZE + n * TRIANGLE_SIZE

ValidFile     == [record |-> TRUE,  exists |-> TRUE,  ext |-> "stl",
                  size |-> BinarySize(2), count |-> 2, header |-> "binary",
                  bad_at |-> 0, lines |-> << >>]
TruncatedFile == [record |-> TRUE,  exists |-> TRUE,  ext |-> "stl",
                  size |-> BinarySize(2) - TRIANGLE_SIZE, count |-> 2,
                  header |-> "binary", bad_at |-> 0, lines |-> << >>]
UnstoredFile  == [record |-> TRUE,  exists |-> FALSE, ext |-> "stl",
                  size |-> BinarySize(2), count |-> 2, header |-> "binary",
                  bad_at |-> 0, lines |-> << >>]
DeletedFile   == [record |-> FALSE, exists |-> TRUE,  ext |-> "stl",
                  size |-> BinarySize(2), count |-> 2, header |-> "binary",
                  bad_at |-> 0, lines |-> << >>]

Files == {ValidFile, TruncatedFile, UnstoredFile, DeletedFile}

Accept == [ok |-> TRUE, reason |-> <<>>]
Reject(reason) == [ok |-> FALSE, reason |-> reason]

Min(a, b) == IF a < b THEN a ELSE b

\* Variant: the declared count is not compared with the file's size.
_validate_binary_stl_NoSizeCheck(f) ==
    IF f.size < HEADER_SIZE + COUNT_SIZE
    THEN Reject(<<"Invalid binary STL: missing triangle count">>)
    ELSE IF f.count = 0
    THEN Reject(<<"STL file contains no triangles">>)
    ELSE IF f.count > MAX_TRIANGLES
    THEN Reject(<<"STL file too complex">>)
    ELSE IF f.bad_at \in 1..Min(SAMPLE_TRIANGLES, f.count)
    THEN Reject(<<"Invalid coordinate value">>)
    ELSE Accept

\* STLValidator._validate_binary_stl
_validate_binary_stl(f) ==
    IF f.size < HEADER_SIZE + COUNT_SIZE
    THEN Reject(<<"Invalid binary STL: missing triangle count">>)
    ELSE IF f.count = 0
    THEN Reject(<<"STL file contains no triangles">>)
    ELSE IF f.count > MAX_TRIANGLES
    THEN Reject(<<"STL file too complex">>)
    ELSE IF f.size # HEADER_SIZE + COUNT_SIZE + f.count * TRIANGLE_SIZE
    THEN Reject(<<"Invalid binary STL: size mismatch">>)
    ELSE IF f.bad_at \in 1..Min(SAMPLE_TRIANGLES, f.count)
    THEN Reject(<<"Invalid coordinate value">>)
    ELSE Accept

\* The lines of a text STL file, as words.
SolidLine    == <<"solid", "part">>
FacetLine    == <<"facet", "normal", "0", "0", "1">>
OuterLoop    == <<"outer", "loop">>
VertexLine   == <<"vertex", "0", "1", "0">>
EndLoop      == <<"endloop">>
EndFacet     == <<"endfacet">>
EndSolidLine == <<"endsolid", "part">>

\* Words float() parses.
Numerals == {"0", "1"}

\* lines[i] of the Python list (indices from 0).
At(lines, i) == lines[i + 1]

\* line.startswith("solid"), "endsolid", "facet normal", "vertex"
StartsWith(line, words) ==
    /\ Len(line) >= Len(words)
    /\ SubSeq(line, 1, Len(words)) = words

\* The check of one vertex line: << >> when it passes.
VertexProblem(line) ==
    IF ~StartsWith(line, <<"vertex">>) THEN <<"Expected vertex">>
    ELSE IF Len(line) < 4 THEN <<"Invalid vertex format">>
    ELSE IF \E k \in 2..4 : line[k] \notin Numerals
    THEN <<"Invalid vertex coordinates">>
    ELSE << >>

Scanned(ok, reason, n) ==
    [ok |-> ok, reason |-> reason, triangle_count |-> n]

\* STLValidator._validate_ascii_stl, the while loop from index i on and the
\* two checks of triangle_count that follow it.
RECURSIVE ScanFacets(_, _, _)
ScanFacets(lines, i, triangle_count) ==
    IF ~(i < Len(lines) - 1)
    THEN IF triangle_count = 0
         THEN Scanned(FALSE, <<"ASCII STL contains no triangles">>, 0)
         ELSE IF triangle_count > MAX_TRIANGLES
         THEN Scanned(FALSE, <<"STL file too complex">>, triangle_count)
         ELSE Scanned(TRUE, << >>, triangle_count)
    ELSE IF ~StartsWith(At(lines, i), <<"facet", "normal">>)
    THEN ScanFacets(lines, i + 1, triangle_count)
    ELSE IF i + 6 >= Len(lines)
    THEN Scanned(FALSE, <<"Incomplete facet">>, triangle_count)
    ELSE IF At(lines, i + 1) # OuterLoop
    THEN Scanned(FALSE, <<"Expected 'outer loop'">>, triangle_count)
    ELSE IF \E j \in 0..2 : VertexProblem(At(lines, i + 2 + j)) # << >>
    THEN LET j == CHOOSE j \in 0..2 :
                    /\ VertexProblem(At(lines, i + 2 + j)) # << >>
                    /\ \A k \in 0..(j - 1) :
                          VertexProblem(At(lines, i + 2 + k)) = << >>
         IN Scanned(FALSE, VertexProblem(At(lines, i + 2 + j)),
                    triangle_count)
    ELSE IF At(lines, i + 5) # EndLoop
    THEN Scanned(FALSE, <<"Expected 'endloop'">>, triangle_count)
    ELSE IF At(lines, i + 6) # EndFacet
    THEN Scanned(FALSE, <<"Expected 'endfacet'">>, triangle_count)
    ELSE ScanFacets(lines, i + 7, triangle_count + 1)

\* STLValidator._validate_ascii_stl on content.strip().split("\n"), which
\* is never an empty list; the count stays a local of the method.
_validate_ascii_stl(lines) ==
    IF ~StartsWith(At(lines, 0), <<"solid">>)
    THEN Reject(<<"ASCII STL must start with 'solid'">>)
    ELSE IF ~StartsWith(At(lines, Len(lines) - 1), <<"endsolid">>)
    THEN Reject(<<"ASCII STL must end with 'endsolid'">>)
    ELSE LET r == ScanFacets(lines, 1, 0)
         IN [ok |-> r.ok, reason |-> r.reason]

\* STLValidator._validate_stl_format: the first bytes choose the format.
_validate_stl_format(f) ==
    IF f.header = "solid" THEN _validate_ascii_stl(f.lines)
    ELSE _validate_binary_stl(f)

\* STLValidator._validate_geometry
_validate_geometry(f) == Accept

\* Variant: the extension is looked at before the size.
validate_file_ExtensionFirst(f) ==
    IF ~f.exists THEN Reject(<<"File does not exist">>)
    ELSE IF f.ext # "stl" THEN Reject(<<"File must have .stl extension">>)
    ELSE IF f.size > MAX_FILE_SIZE THEN Reject(<<"File too large">>)
    ELSE IF f.size < MIN_FILE_SIZE THEN Reject(<<"File too small">>)
    ELSE IF ~_validate_stl_format(f).ok THEN _validate_stl_format(f)
    ELSE _validate_geometry(f)

\* STLValidator.validate_file
validate_file(f) ==
    IF ~f.exists THEN Reject(<<"File does not exist">>)
    ELSE IF f.size > MAX_FILE_SIZE THEN Reject(<<"File too large">>)
    ELSE IF f.size < MIN_FILE_SIZE THEN Reject(<<"File too small">>)
    ELSE IF f.ext # "stl" THEN Reject(<<"File must have .stl extension">>)
    ELSE IF ~_validate_stl_format(f).ok THEN _validate_stl_format(f)
    ELSE _validate_geometry(f)

\* Variant: the wrapper reports every file as valid.
_validate_stl_file_Accepts(f) == Accept

\* AnalysisService._validate_stl_file
_validate_stl_file(f) == validate_file(f)

\* --------------------------------------------------------------- uuid4()
\* Every uuid.uuid4() value differs from every other one drawn: the k-th
\* submission draws its job id and (in apply_async) its task id, and the
\* n-th row saved for a job draws its result id.

\* Variant: every submission gets the id of the first.
JobUuid_NotFresh(k) == 10 + 1

JobUuid(k) == 10 * k + 1
TaskUuid(k) == 10 * k + 2
ResultUuid(job_id, n) == job_id + 1 + n

\* ------------------------------------------------------------ the backend
PendingMeta == [state |-> "PENDING", progress |-> 0, result |-> 0,
                error |-> <<>>]
StartedMeta == [state |-> "STARTED", progress |-> 0, result |-> 0,
                error |-> <<"{'pid', 'hostname'}">>]
ProgressMeta(p) == [state |-> "PROGRESS", progress |-> p, result |-> 0,
                    error |-> <<>>]
SuccessMeta(r) == [state |-> "SUCCESS", progress |-> 0, result |-> r,
                   error |-> <<>>]
FailureMeta(e) == [state |-> "FAILURE", progress |-> 0, result |-> 0,
                   error |-> e]

\* Variant: the meta is looked up under the task id of the job.
AsyncResult_OfJobTask(id) ==
    IF id \in DOMAIN jobs /\ jobs[id].task \in DOMAIN backend
    THEN backend[jobs[id].task] ELSE PendingMeta

\* celery_app.AsyncResult(id): the meta stored under that task id; Celery
\* reports PENDING for an id it has no meta for.
AsyncResult(id) ==
    IF id \in DOMAIN backend THEN backend[id] ELSE PendingMeta

\* No status query has been answered yet.
NoResponse == [job_id |-> 0, status |-> "none", progress |-> 0,
               result_id |-> 0, error |-> <<>>]

\* AnalysisService.get_analysis_status
get_analysis_status(job_id) ==
    LET result == AsyncResult(job_id) IN
    IF result.state = "PENDING"
    THEN [job_id |-> job_id, status |-> "pending", progress |-> 0,
          result_id |-> 0, error |-> <<>>]
    ELSE IF result.state = "PROGRESS"
    THEN [job_id |-> job_id, status |-> "processing",
          progress |-> result.progress, result_id |-> 0, error |-> <<>>]
    ELSE IF result.state = "SUCCESS"
    THEN [job_id |-> job_id, status |-> "completed", progress |-> 100,
          result_id |-> result.result, error |-> <<>>]
    ELSE [job_id |-> job_id, status |-> "failed", progress |-> 0,
          result_id |-> 0, error |-> result.error]

\* backend.store_result(task_id, ...): the meta of a task is replaced whole.
Store(t, meta) == (t :> meta) @@ backend

\* ------------------------------------------------------------ the workers
\* The locals of one execution of analyze_stl_task.
NewRun(m) == [pc |-> "upd10", task |-> m.id, job |-> m.job_id,
              service |-> FALSE, db |-> FALSE, ws |-> "none", err |-> <<>>,
              cause |-> "", result |-> 0]

\* Variant: the workspace stage reports a smaller value than validation.
ProgressAt_Lower(pc) ==
    CASE pc = "upd10"  -> 10
      [] pc = "upd20"  -> 20
      [] pc = "upd30"  -> 3
      [] pc = "upd50"  -> 50
      [] pc = "upd80"  -> 80
      [] pc = "upd100" -> 100

\* The update_state calls of analyze_stl_task: progress written at each.
ProgressAt(pc) ==
    CASE pc = "upd10"  -> 10
      [] pc = "upd20"  -> 20
      [] pc = "upd30"  -> 30
      [] pc = "upd50"  -> 50
      [] pc = "upd80"  -> 80
      [] pc = "upd100" -> 100

\* Variant: the workspace is prepared without validating first.
AfterUpdate_NoValidate(pc) ==
    CASE pc = "upd10"  -> "lookup"
      [] pc = "upd20"  -> "prepare"
      [] pc = "upd30"  -> "prepare"
      [] pc = "upd50"  -> "slicer"
      [] pc = "upd80"  -> "save"
      [] pc = "upd100" -> "return"

\* Variant: the slicer is run right after validation, before the workspace
\* is prepared.
AfterUpdate_SkipWorkspace(pc) ==
    CASE pc = "upd10"  -> "lookup"
      [] pc = "upd20"  -> "validate"
      [] pc = "upd30"  -> "engine"
      [] pc = "upd50"  -> "slicer"
      [] pc = "upd80"  -> "save"
      [] pc = "upd100" -> "return"

\* The statement that follows each update_state call.
AfterUpdate(pc) ==
    CASE pc = "upd10"  -> "lookup"
      [] pc = "upd20"  -> "validate"
      [] pc = "upd30"  -> "prepare"
      [] pc = "upd50"  -> "slicer"
      [] pc = "upd80"  -> "save"
      [] pc = "upd100" -> "return"

UpdatePcs == {"upd10", "upd20", "upd30", "upd50", "upd80", "upd100"}

\* An exception raised inside the try block of analyze_stl_task.
Raised(w, c, e) == [worker[w] EXCEPT !.pc = "except", !.err = e, !.cause = c]

\* The worker executing w has finished and takes no further step for it.
Finished(w) == [v \in DOMAIN worker \ {w} |-> worker[v]]

\* No library function has been called directly yet.
NoCall == [fn |-> "none", arg |-> << >>, ret |-> << >>, done |-> FALSE]

InitPipeline ==
    /\ jobs = << >>
    /\ queue = << >>
    /\ attempts = << >>
    /\ redelivered = 0
    /\ backend = << >>
    /\ worker = << >>
    /\ workspaces = {}
    /\ wsInput = {}
    /\ tmpdirs = {}
    /\ results = {}
    /\ obs = NoResponse
    /\ engineRuns = << >>
    /\ wsEver = {}
    /\ cause = << >>
    /\ saves = << >>

Init ==
    /\ InitPipeline
    /\ call = NoCall

\* PrintSettings: layer height in hundredths of a millimetre, the other
\* fields in their own units.
DefaultSettings ==
    [layer_height |-> 20, infill_density |-> 20, nozzle_temperature |-> 210,
     bed_temperature |-> 60, print_speed |-> 50]

\* The settings of a request body: the defaults, and the defaults with one
\* field just outside its range.
Settings ==
    {DefaultSettings}
    \cup {[DefaultSettings EXCEPT !.layer_height = v] : v \in {9, 51}}
    \cup {[DefaultSettings EXCEPT !.infill_density = v] : v \in {0 - 1, 101}}
    \cup {[DefaultSettings EXCEPT !.nozzle_temperature = v] : v \in {179, 301}}
    \cup {[DefaultSettings EXCEPT !.bed_temperature = v] : v \in {0 - 1, 121}}
    \cup {[DefaultSettings EXCEPT !.print_speed = v] : v \in {9, 201}}

\* Variant: the fields carry no ge/le constraints.
PrintSettings_Unconstrained(s) == TRUE

\* The Field(ge=..., le=...) constraints of PrintSettings, which pydantic
\* checks when FastAPI builds the AnalysisRequest.
PrintSettings(s) ==
    /\ s.layer_height >= 10 /\ s.layer_height <= 50
    /\ s.infill_density >= 0 /\ s.infill_density <= 100
    /\ s.nozzle_temperature >= 180 /\ s.nozzle_temperature <= 300
    /\ s.bed_temperature >= 0 /\ s.bed_temperature <= 120
    /\ s.print_speed >= 10 /\ s.print_speed <= 200

\* AnalysisService.analyze_stl: job_id = uuid4();
\* analyze_stl_task.delay(job_id, file_id, settings_dict, user_id) publishes
\* one message under a task id that apply_async draws itself, and returns.
analyze_stl(f, s) ==
    /\ Cardinality(DOMAIN jobs) < MaxJobs
    /\ LET job_id == JobUuid(Cardinality(DOMAIN jobs) + 1)
           task_id == TaskUuid(Cardinality(DOMAIN jobs) + 1)
       IN /\ jobs' = (job_id :> [task |-> task_id, file |-> f,
                                 settings |-> s]) @@ jobs
          /\ queue' = Append(queue, [id |-> task_id, job_id |-> job_id])
          /\ attempts' = (task_id :> 0) @@ attempts
          /\ engineRuns' = (job_id :> 0) @@ engineRuns
          /\ saves' = (job_id :> 0) @@ saves
    /\ UNCHANGED <<call, redelivered, backend, worker, workspaces, wsInput,
                   tmpdirs, results, obs, wsEver, cause>>

\* POST /api/analysis: a body whose settings break a constraint is answered
\* 422 before the handler runs; the handler finds the File row, whose name
\* ends in .stl, and calls AnalysisService.analyze_stl.
start_analysis(f, s) ==
    /\ PrintSettings(s)
    /\ f.ext = "stl"
    /\ analyze_stl(f, s)

\* A free worker of the pool receives a message (acknowledged on receipt)
\* and, task_track_started being set, records STARTED before the body runs.
Deliver(m) ==
    /\ queue # << >>
    /\ m = Head(queue)
    /\ Cardinality(DOMAIN worker) < Concurrency
    /\ queue' = Tail(queue)
    /\ attempts' = [attempts EXCEPT ![m.id] = @ + 1]
    /\ backend' = Store(m.id, StartedMeta)
    /\ worker' = (<<m.id, attempts[m.id] + 1>> :> NewRun(m)) @@ worker
    /\ UNCHANGED <<call, jobs, redelivered, workspaces, wsInput, tmpdirs, results,
                   obs, engineRuns, wsEver, cause, saves>>

\* At-least-once delivery: the broker hands out a delivered message again.
Redeliver(m) ==
    /\ m.id \in DOMAIN attempts
    /\ attempts[m.id] > 0
    /\ \A i \in DOMAIN queue : queue[i] # m
    /\ redelivered < MaxRedeliveries
    /\ redelivered' = redelivered + 1
    /\ queue' = Append(queue, m)
    /\ UNCHANGED <<call, jobs, attempts, backend, worker, workspaces, wsInput,
                   tmpdirs, results, obs, engineRuns, wsEver, cause, saves>>

\* self.update_state(state="PROGRESS", meta={"progress": p, ...})
UpdateState(w) ==
    /\ w \in DOMAIN worker
    /\ worker[w].pc \in UpdatePcs
    /\ backend' = Store(worker[w].task, ProgressMeta(ProgressAt(worker[w].pc)))
    /\ worker' = [worker EXCEPT ![w].pc = AfterUpdate(worker[w].pc)]
    /\ UNCHANGED <<call, jobs, queue, attempts, redelivered, workspaces, wsInput,
                   tmpdirs, results, obs, engineRuns, wsEver, cause, saves>>

\* update_state raises (the result backend cannot be reached).
UpdateStateFails(w) ==
    /\ w \in DOMAIN worker
    /\ worker[w].pc \in UpdatePcs
    /\ worker' = [worker EXCEPT ![w] =
                    Raised(w, "backend", <<"backend unavailable">>)]
    /\ UNCHANGED <<call, jobs, queue, attempts, redelivered, backend, workspaces,
                   wsInput, tmpdirs, results, obs, engineRuns, wsEver, cause,
                   saves>>

\* db = next(get_db()); the File row; service = AnalysisService()
Lookup(w) ==
    /\ w \in DOMAIN worker
    /\ worker[w].pc = "lookup"
    /\ LET f == jobs[worker[w].job].file IN
       worker' = [worker EXCEPT ![w] =
          IF ~f.record
          THEN [Raised(w, "norecord", <<"File ", "not found">>)
                    EXCEPT !.db = TRUE]
          ELSE [worker[w] EXCEPT !.pc = "upd20", !.db = TRUE,
                                 !.service = TRUE]]
    /\ UNCHANGED <<call, jobs, queue, attempts, redelivered, backend, workspaces,
                   wsInput, tmpdirs, results, obs, engineRuns, wsEver, cause,
                   saves>>

\* file_path.exists(); service._validate_stl_file(file_path)
Validate(w) ==
    /\ w \in DOMAIN worker
    /\ worker[w].pc = "validate"
    /\ LET f == jobs[worker[w].job].file
           v == _validate_stl_file(f)
       IN worker' = [worker EXCEPT ![w] =
            IF ~f.exists
            THEN Raised(w, "nostored", <<"File not found at ">>)
            ELSE IF ~v.ok
            THEN Raised(w, "invalid", <<"Invalid STL file: ">> \o v.reason)
            ELSE [worker[w] EXCEPT !.pc = "upd30"]]
    /\ UNCHANGED <<call, jobs, queue, attempts, redelivered, backend, workspaces,
                   wsInput, tmpdirs, results, obs, engineRuns, wsEver, cause,
                   saves>>

\* AnalysisService._prepare_analysis_workspace: mkdir(exist_ok=True), then
\* input.stl is written; either call can raise.
PrepareOutcomes == {"ok", "mkdir_fails", "copy_fails"}

PrepareWorkspace(w, o) ==
    /\ w \in DOMAIN worker
    /\ worker[w].pc = "prepare"
    /\ o \in PrepareOutcomes
    /\ LET j == worker[w].job IN
       /\ workspaces' = IF o = "mkdir_fails" THEN workspaces
                        ELSE workspaces \cup {j}
       /\ wsEver' = IF o = "mkdir_fails" THEN wsEver ELSE wsEver \cup {j}
       /\ wsInput' = IF o = "ok" THEN wsInput \cup {j} ELSE wsInput
       /\ worker' = [worker EXCEPT ![w] =
            IF o = "ok"
            THEN [worker[w] EXCEPT !.pc = "upd50", !.ws = "held"]
            ELSE Raised(w, "workspace", <<"[Errno] input.stl">>)]
    /\ UNCHANGED <<call, jobs, queue, attempts, redelivered, backend, tmpdirs,
                   results, obs, engineRuns, cause, saves>>

\* ------------------------------------------------------- duration strings
\* A duration string is the sequence of its whitespace-separated words,
\* each word a sequence of characters; durations are counted in seconds,
\* so that hours + minutes / 60 + seconds / 3600 is 1h = 3600.
Digits == {"0", "1", "2", "3", "4", "5", "6", "7", "8", "9"}

DigitValue(c) ==
    CASE c = "0" -> 0 [] c = "1" -> 1 [] c = "2" -> 2 [] c = "3" -> 3
      [] c = "4" -> 4 [] c = "5" -> 5 [] c = "6" -> 6 [] c = "7" -> 7
      [] c = "8" -> 8 [] c = "9" -> 9

\* str.lower() on one character
Lower(c) ==
    CASE c = "H" -> "h" [] c = "M" -> "m" [] c = "S" -> "s" [] OTHER -> c

\* part.replace(c, "")
Without(part, c) == SelectSeq(part, LAMBDA x : x # c)

\* c in part
Has(part, c) == \E i \in DOMAIN part : part[i] = c

\* time_str.lower().replace(",", "").split()
SplitWords(time_str) ==
    SelectSeq([i \in DOMAIN time_str |->
                  Without([k \in DOMAIN time_str[i] |->
                              Lower(time_str[i][k])], ",")],
              LAMBDA part : part # << >>)

\* float(text) returns for the digit strings and raises ValueError for
\* every other text over the characters used here.
Floats(text) == text # << >> /\ \A i \in DOMAIN text : text[i] \in Digits

RECURSIVE FloatOf(_)
FloatOf(text) ==
    IF text = << >> THEN 0
    ELSE 10 * FloatOf(SubSeq(text, 1, Len(text) - 1))
         + DigitValue(text[Len(text)])

\* The unit a word is read as: the first of h, m, s it contains.
UnitOf(part) ==
    IF Has(part, "h") THEN "h"
    ELSE IF Has(part, "m") THEN "m"
    ELSE IF Has(part, "s") THEN "s"
    ELSE "none"

\* The for loop of _parse_time_string.
RECURSIVE ParseParts(_, _)
ParseParts(parts, acc) ==
    IF parts = << >> THEN acc
    ELSE LET part == Head(parts)
             unit == UnitOf(part)
         IN IF unit = "none" THEN ParseParts(Tail(parts), acc)
            ELSE IF ~Floats(Without(part, unit))
            THEN [acc EXCEPT !.raised = TRUE]
            ELSE ParseParts(Tail(parts),
                            [acc EXCEPT ![unit] = FloatOf(Without(part, unit))])

\* Variant: minutes are counted as seconds.
_parse_time_string_MinutesAsSeconds(time_str) ==
    LET r == ParseParts(SplitWords(time_str),
                        [h |-> 0, m |-> 0, s |-> 0, raised |-> FALSE])
    IN IF r.raised THEN SECONDS_PER_HOUR
       ELSE r.h * SECONDS_PER_HOUR + r.m + r.s

\* PrusaSlicerRunner._parse_time_string
_parse_time_string(time_str) ==
    LET r == ParseParts(SplitWords(time_str),
                        [h |-> 0, m |-> 0, s |-> 0, raised |-> FALSE])
    IN IF r.raised THEN SECONDS_PER_HOUR
       ELSE r.h * SECONDS_PER_HOUR + r.m * SECONDS_PER_MINUTE + r.s

\* ---------------------------------------------------------- the artifact
\* The engine's output file: whether it can be read, and its lines. A line
\* is told by what the parser looks at: its prefix (tag), whether it holds
\* an "=", and the text after the "=" (for a time line, a duration string).
FilamentLine(text) == [tag |-> "filament", eq |-> TRUE, value |-> text]
TimeLine(eq, time_str) == [tag |-> "time", eq |-> eq, value |-> time_str]
SupportLine == [tag |-> "support", eq |-> TRUE, value |-> << >>]
OtherLine == [tag |-> "other", eq |-> FALSE, value |-> << >>]

\* PrintMetrics as _parse_gcode_metrics first builds it. Durations are in
\* seconds and masses in units of filament cross-section / 100000 grams.
DefaultMetrics ==
    [filament_grams |-> 0, print_time_hours |-> 0, volume_mm3 |-> 0,
     complexity_score |-> 1, supports_required |-> FALSE]

\* filament_mm * area / 1000 * 1.24
FilamentGrams(filament_mm) == filament_mm * PLA_DENSITY

Parsed(metrics) == [ok |-> TRUE, metrics |-> metrics]
ParseError(metrics) == [ok |-> FALSE, metrics |-> metrics]

\* The for loop of _parse_gcode_metrics: the metrics after the lines, or
\* the metrics reached when a line raised (ValueError, IndexError).
RECURSIVE ParseLines(_, _)
ParseLines(lines, metrics) ==
    IF lines = << >> THEN Parsed(metrics)
    ELSE LET line == Head(lines) IN
         IF line.tag = "filament"
         THEN IF ~Floats(line.value) THEN ParseError(metrics)
              ELSE ParseLines(Tail(lines),
                     [metrics EXCEPT !.filament_grams =
                                        FilamentGrams(FloatOf(line.value))])
         ELSE IF line.tag = "time"
         THEN IF ~line.eq THEN ParseError(metrics)
              ELSE ParseLines(Tail(lines),
                     [metrics EXCEPT !.print_time_hours =
                                        _parse_time_string(line.value)])
         ELSE IF line.tag = "support"
         THEN ParseLines(Tail(lines),
                         [metrics EXCEPT !.supports_required = TRUE])
         ELSE ParseLines(Tail(lines), metrics)

\* Variant: no except clause; the exception of a line leaves the method.
_parse_gcode_metrics_NoExcept(artifact) ==
    IF ~artifact.readable THEN ParseError(DefaultMetrics)
    ELSE ParseLines(artifact.lines, DefaultMetrics)

\* PrusaSlicerRunner._parse_gcode_metrics: whatever is raised inside (by
\* open, float or split) is caught and the metrics reached are returned.
_parse_gcode_metrics(artifact) ==
    IF ~artifact.readable THEN Parsed(DefaultMetrics)
    ELSE Parsed(ParseLines(artifact.lines, DefaultMetrics).metrics)

\* The run of the script _analyze_stl_geometry writes (analyze_stl.py, in
\* a python:3.10 container): the \" of its print line are plain quotes
\* once written, the script does not compile and the interpreter exits
\* with a SyntaxError before it opens the file.
analyze_stl_py(stl_file) == [returncode |-> 1, stdout |-> << >>]

\* PrusaSlicerRunner._analyze_stl_geometry: the script's JSON output when
\* it exits 0, the fallback dictionary otherwise (a failing docker call is
\* caught and gives the same dictionary).
_analyze_stl_geometry(stl_file) ==
    LET result == analyze_stl_py(stl_file)
    IN IF result.returncode = 0 THEN result.stdout
       ELSE [volume_mm3 |-> 1000, complexity_score |-> 1]

\* What one engine subprocess run can do.
Stderrs == {"mesh is not manifold"}
EngineOutcomes ==
    [timed_out : BOOLEAN, returncode : {0, 1}, output : BOOLEAN,
     stderr : Stderrs]

\* The artifacts an engine run can leave.
ArtifactLines ==
    {FilamentLine(<<"1", "2">>), FilamentLine(<<"x">>),
     TimeLine(TRUE, <<<<"1", "h">>, <<"3", "0", "m">>>>),
     TimeLine(FALSE, << >>), SupportLine, OtherLine}

Artifacts ==
    {[readable |-> FALSE, lines |-> << >>]}
    \cup {[readable |-> TRUE, lines |-> t] :
             t \in UNION {[1..n -> ArtifactLines] : n \in 0..MaxLines}}

Returned(v) == [ok |-> TRUE, err |-> <<>>, kind |-> "ok"]
Raises(k, e) == [ok |-> FALSE, err |-> e, kind |-> k]

\* Variant: no TimeoutExpired clause; the killed engine left no output.
_run_slicer_NoTimeoutClause(o) ==
    IF ~o.timed_out /\ o.returncode # 0
    THEN Raises("nonzero", <<"Docker execution failed: ",
                             "PrusaSlicer failed: ", o.stderr>>)
    ELSE IF o.timed_out \/ ~o.output
    THEN Raises(IF o.timed_out THEN "timeout" ELSE "missing",
                <<"Docker execution failed: ",
                  "PrusaSlicer did not generate output file">>)
    ELSE Returned(o)

\* Variant: subprocess.run is given no timeout; the wait for an engine that
\* does not finish never ends.
_run_slicer_Unbounded(o) ==
    IF o.timed_out THEN Raises("blocked", << >>)
    ELSE IF o.returncode # 0
    THEN Raises("nonzero", <<"Docker execution failed: ",
                             "PrusaSlicer failed: ", o.stderr>>)
    ELSE IF ~o.output
    THEN Raises("missing", <<"Docker execution failed: ",
                             "PrusaSlicer did not generate output file">>)
    ELSE Returned(o)

\* Variant: the output file is not looked for.
_run_slicer_OutputUnchecked(o) ==
    IF o.timed_out
    THEN Raises("timeout", <<"PrusaSlicer analysis timed out">>)
    ELSE IF o.returncode # 0
    THEN Raises("nonzero", <<"Docker execution failed: ",
                             "PrusaSlicer failed: ", o.stderr>>)
    ELSE Returned(o)

\* PrusaSlicerRunner._run_slicer: an exception raised in the try body is
\* re-raised by the `except Exception` clause with a prefix; the one raised
\* by the TimeoutExpired clause itself is not.
_run_slicer(o) ==
    IF o.timed_out
    THEN Raises("timeout", <<"PrusaSlicer analysis timed out">>)
    ELSE IF o.returncode # 0
    THEN Raises("nonzero", <<"Docker execution failed: ",
                             "PrusaSlicer failed: ", o.stderr>>)
    ELSE IF ~o.output
    THEN Raises("missing", <<"Docker execution failed: ",
                             "PrusaSlicer did not generate output file">>)
    ELSE Returned(o)

\* PrusaSlicerRunner.analyze_stl, entry: the TemporaryDirectory is made and
\* the workspace's input.stl copied into it; a failed copy leaves the
\* with-block at once.
SlicerEnter(w) ==
    /\ w \in DOMAIN worker
    /\ worker[w].pc = "slicer"
    /\ IF worker[w].job \in wsInput
       THEN /\ tmpdirs' = tmpdirs \cup {w}
            /\ worker' = [worker EXCEPT ![w].pc = "engine"]
       ELSE /\ tmpdirs' = tmpdirs
            /\ worker' = [worker EXCEPT ![w] =
                 Raised(w, "lost", <<"Slicer analysis error: ",
                                     "[Errno 2] No such file: input.stl">>)]
    /\ UNCHANGED <<call, jobs, queue, attempts, redelivered, backend, workspaces,
                   wsInput, results, obs, engineRuns, wsEver, cause, saves>>

\* PrusaSlicerRunner.analyze_stl after the copy, given what _run_slicer (r)
\* and _parse_gcode_metrics (p) gave back: the geometry pass fills in two
\* metrics; any exception is re-raised with a prefix.
analyze_stl_result(stl_file, print_settings, r, p) ==
    LET stl_metrics == _analyze_stl_geometry(stl_file)
    IN IF ~r.ok
       THEN Raises(r.kind, <<"Slicer analysis error: ">> \o r.err)
       ELSE IF ~p.ok
       THEN Raises("parse", <<"Slicer analysis error: ", "ValueError">>)
       ELSE [ok |-> TRUE, err |-> << >>, kind |-> "ok",
             metrics |-> [p.metrics EXCEPT
                 !.volume_mm3 = stl_metrics.volume_mm3,
                 !.complexity_score = stl_metrics.complexity_score]]

\* PrusaSlicerRunner.analyze_stl after the copy: engine run, both parser
\* passes.
PrusaSlicerRunner_analyze_stl(stl_file, print_settings, o, artifact) ==
    analyze_stl_result(stl_file, print_settings, _run_slicer(o),
                       _parse_gcode_metrics(artifact))

\* What _run_slicer and _parse_gcode_metrics can give back, over every
\* engine outcome and every artifact.
EngineReturns == {_run_slicer(o) : o \in EngineOutcomes}
ParsedArtifacts == {_parse_gcode_metrics(artifact) : artifact \in Artifacts}

\* What PrusaSlicerRunner.analyze_stl can give back for a file.
SlicerResults(stl_file, print_settings) ==
    {analyze_stl_result(stl_file, print_settings, r, p) :
        r \in EngineReturns, p \in ParsedArtifacts}

\* PrusaSlicerRunner.analyze_stl, rest: the engine subprocess runs, the
\* metrics are parsed, the with-block removes the TemporaryDirectory and
\* any exception is wrapped; r is what the call gives back. A call that never
\* returns leaves the worker inside it, with no further step.
RunSlicer(w) ==
    /\ w \in DOMAIN worker
    /\ worker[w].pc = "engine"
    /\ \E r \in SlicerResults(jobs[worker[w].job].file,
                              jobs[worker[w].job].settings) :
          worker' = [worker EXCEPT ![w] =
                       IF r.ok THEN [worker[w] EXCEPT !.pc = "upd80"]
                       ELSE IF r.kind = "blocked"
                       THEN [worker[w] EXCEPT !.pc = "blocked"]
                       ELSE Raised(w, r.kind, r.err)]
    /\ engineRuns' = [engineRuns EXCEPT ![worker[w].job] = @ + 1]
    /\ tmpdirs' = tmpdirs \ {w}
    /\ UNCHANGED <<call, jobs, queue, attempts, redelivered, backend, workspaces,
                   wsInput, results, obs, wsEver, cause, saves>>

\* Variant: the row is added to the session but never committed.
SaveResult_NoCommit(w) ==
    /\ w \in DOMAIN worker
    /\ worker[w].pc = "save"
    /\ LET id == ResultUuid(worker[w].job, saves[worker[w].job] + 1) IN
       /\ saves' = [saves EXCEPT ![worker[w].job] = @ + 1]
       /\ worker' = [worker EXCEPT ![w].pc = "cleanup", ![w].result = id]
    /\ UNCHANGED <<call, jobs, queue, attempts, redelivered, backend, workspaces,
                   wsInput, tmpdirs, results, obs, engineRuns, wsEver, cause>>

\* db_result = AnalysisResult(id=str(uuid.uuid4()), ...); db.add; db.commit
SaveResult(w) ==
    /\ w \in DOMAIN worker
    /\ worker[w].pc = "save"
    /\ LET id == ResultUuid(worker[w].job, saves[worker[w].job] + 1) IN
       /\ saves' = [saves EXCEPT ![worker[w].job] = @ + 1]
       /\ results' = results \cup {[id |-> id, job |-> worker[w].job]}
       /\ worker' = [worker EXCEPT ![w].pc = "cleanup", ![w].result = id]
    /\ UNCHANGED <<call, jobs, queue, attempts, redelivered, backend, workspaces,
                   wsInput, tmpdirs, obs, engineRuns, wsEver, cause>>

\* db.commit() raises: no row is stored.
SaveResultFails(w) ==
    /\ w \in DOMAIN worker
    /\ worker[w].pc = "save"
    /\ worker' = [worker EXCEPT ![w] =
                    Raised(w, "persist", <<"(OperationalError) commit">>)]
    /\ UNCHANGED <<call, jobs, queue, attempts, redelivered, backend, workspaces,
                   wsInput, tmpdirs, results, obs, engineRuns, wsEver, cause,
                   saves>>

\* Variant: the parent directory temp_dir is removed, not temp_dir/<job_id>.
RemoveTree_Parent(j) == {}

\* shutil.rmtree(workspace, ignore_errors=True) on the success path.
RemoveTree(j) == workspaces \ {j}

Cleanup(w) ==
    /\ w \in DOMAIN worker
    /\ worker[w].pc = "cleanup"
    /\ workspaces' = RemoveTree(worker[w].job)
    /\ wsInput' = wsInput \cap workspaces'
    /\ worker' = [worker EXCEPT ![w].pc = "upd100", ![w].ws = "released"]
    /\ UNCHANGED <<call, jobs, queue, attempts, redelivered, backend, tmpdirs,
                   results, obs, engineRuns, wsEver, cause, saves>>

\* return db_result.id; finally db.close(): Celery stores SUCCESS with the
\* returned id and the worker is free again.
Return(w) ==
    /\ w \in DOMAIN worker
    /\ worker[w].pc = "return"
    /\ backend' = Store(worker[w].task, SuccessMeta(worker[w].result))
    /\ worker' = Finished(w)
    /\ UNCHANGED <<call, jobs, queue, attempts, redelivered, workspaces, wsInput,
                   tmpdirs, results, obs, engineRuns, wsEver, cause, saves>>

\* Variant: the except block re-raises without removing anything.
CleanupOnError_Skipped(w) == workspaces

\* The except block's cleanup: service.temp_dir / job_id is removed if it
\* exists; when `service` was never bound the NameError is swallowed.
CleanupOnError(w) ==
    IF worker[w].service /\ worker[w].job \in workspaces
    THEN workspaces \ {worker[w].job}
    ELSE workspaces

Except(w) ==
    /\ w \in DOMAIN worker
    /\ worker[w].pc = "except"
    /\ workspaces' = CleanupOnError(w)
    /\ wsInput' = wsInput \cap workspaces'
    /\ worker' = [worker EXCEPT ![w].pc = "raise",
                    ![w].ws = IF worker[w].ws = "held" THEN "released"
                              ELSE worker[w].ws]
    /\ UNCHANGED <<call, jobs, queue, attempts, redelivered, backend, tmpdirs,
                   results, obs, engineRuns, wsEver, cause, saves>>

\* raise Exception(f"Analysis failed: {e}"); finally db.close(), which
\* itself raises when `db` was never bound. Celery stores FAILURE.
TaskError(w) ==
    IF worker[w].db THEN <<"Analysis failed: ">> \o worker[w].err
    ELSE <<"UnboundLocalError: db">>

Raise(w) ==
    /\ w \in DOMAIN worker
    /\ worker[w].pc = "raise"
    /\ backend' = Store(worker[w].task, FailureMeta(TaskError(w)))
    /\ cause' = (worker[w].task :> worker[w].cause) @@ cause
    /\ worker' = Finished(w)
    /\ UNCHANGED <<call, jobs, queue, attempts, redelivered, workspaces, wsInput,
                   tmpdirs, results, obs, engineRuns, wsEver, saves>>

\* GET /api/analysis/jobs/{job_id}/status with a job id submit returned.
StatusQuery(j) ==
    /\ j \in DOMAIN jobs
    /\ obs' = get_analysis_status(j)
    /\ UNCHANGED <<call, jobs, queue, attempts, redelivered, backend, worker,
                   workspaces, wsInput, tmpdirs, results, engineRuns, wsEver,
                   cause, saves>>

\* Every message analyze_stl can publish and every delivery of one.
Messages ==
    {[id |-> TaskUuid(k), job_id |-> JobUuid(k)] : k \in 1..MaxJobs}
Deliveries ==
    {<<TaskUuid(k), n>> : k \in 1..MaxJobs, n \in 1..(MaxRedeliveries + 1)}

Next ==
    \/ \E f \in Files, s \in Settings : start_analysis(f, s)
    \/ \E m \in Messages : Deliver(m)
    \/ \E w \in Deliveries : UpdateState(w)
    \/ \E w \in Deliveries : UpdateStateFails(w)
    \/ \E w \in Deliveries : Lookup(w)
    \/ \E w \in Deliveries : Validate(w)
    \/ \E w \in Deliveries, o \in PrepareOutcomes : PrepareWorkspace(w, o)
    \/ \E w \in Deliveries : SlicerEnter(w)
    \/ \E w \in Deliveries : RunSlicer(w)
    \/ \E w \in Deliveries : SaveResult(w)
    \/ \E w \in Deliveries : SaveResultFails(w)
    \/ \E w \in Deliveries : Cleanup(w)
    \/ \E w \in Deliveries : Return(w)
    \/ \E w \in Deliveries : Except(w)
    \/ \E w \in Deliveries : Raise(w)
    \/ \E j \in {m.job_id : m \in Messages} : StatusQuery(j)

\* Each message is delivered once: celery_app sets no task_acks_late, so a
\* message is acknowledged when a worker takes it.
Spec == Init /\ [][Next]_vars

NextRedelivery ==
    \/ Next
    \/ \E m \in Messages : Redeliver(m)

\* The queue may deliver a message more than once (at-least-once).
SpecRedelivery == Init /\ [][NextRedelivery]_vars

\* The steps of the worker process that executes delivery w.
WorkerStep(w) ==
    \/ UpdateState(w)
    \/ UpdateStateFails(w)
    \/ Lookup(w)
    \/ Validate(w)
    \/ \E o \in PrepareOutcomes : PrepareWorkspace(w, o)
    \/ SlicerEnter(w)
    \/ RunSlicer(w)
    \/ SaveResult(w)
    \/ SaveResultFails(w)
    \/ Cleanup(w)
    \/ Return(w)
    \/ Except(w)
    \/ Raise(w)

\* The worker keeps running: while one of its pool processes has a step
\* to take, a step of some pool process is eventually taken.
SpecLive ==
    /\ Init
    /\ [][Next]_vars
    /\ WF_vars(\E w \in Deliveries : WorkerStep(w))

\* ---------------------------------------------------- engine configuration
\* PrusaSlicerRunner._get_default_config. A number stands for the text
\* Python writes for it (layer heights in hundredths of a millimetre).
default_config ==
    [layer_height |-> 20, first_layer_height |-> 20,
     fill_density |-> <<20, "%">>, fill_pattern |-> "grid",
     support_material |-> "0", support_material_auto |-> "1",
     temperature |-> 210, bed_temperature |-> 60, nozzle_diameter |-> 40,
     filament_diameter |-> 175, print_speed |-> 50, travel_speed |-> 120,
     retraction_length |-> 80, retraction_speed |-> 35]

Has_key(d, k) == k \in DOMAIN d

\* PrusaSlicerRunner._create_config_file: the key/value pairs written to
\* config.ini for the settings dictionary print_settings.
_create_config_file(print_settings) ==
    [key \in DOMAIN default_config |->
        IF key = "layer_height" /\ Has_key(print_settings, "layer_height")
        THEN print_settings.layer_height
        ELSE IF key = "fill_density"
                /\ Has_key(print_settings, "infill_density")
        THEN <<print_settings.infill_density, "%">>
        ELSE IF key = "fill_pattern"
                /\ Has_key(print_settings, "infill_pattern")
        THEN print_settings.infill_pattern
        ELSE IF key = "support_material"
                /\ Has_key(print_settings, "supports")
        THEN IF print_settings.supports THEN "1" ELSE "0"
        ELSE IF key = "temperature"
                /\ Has_key(print_settings, "nozzle_temperature")
        THEN print_settings.nozzle_temperature
        ELSE IF key = "bed_temperature"
                /\ Has_key(print_settings, "bed_temperature")
        THEN print_settings.bed_temperature
        ELSE default_config[key]]

\* ------------------------------------------- direct calls of the functions
\* The inputs the validator and the runner are called with.
Counts == (0..MaxCount) \cup {MAX_TRIANGLES, MAX_TRIANGLES + 1}
SizeDeltas == {0 - TRIANGLE_SIZE, 0 - 1, 0, 1, TRIANGLE_SIZE}

\* Binary files: a header that may itself begin with "solid", a declared
\* count, and a size at or near the size the count implies.
BinaryFiles ==
    {[record |-> TRUE, exists |-> TRUE, ext |-> "stl",
      size |-> BinarySize(c) + d, count |-> c, header |-> h, bad_at |-> b,
      lines |-> <<SolidLine>>] :
        c \in Counts, d \in SizeDeltas, h \in {"binary", "solid"},
        b \in {0, 1, SAMPLE_TRIANGLES + 1}}

RECURSIVE Facets(_)
Facets(n) ==
    IF n = 0 THEN << >>
    ELSE <<FacetLine, OuterLoop, VertexLine, VertexLine, VertexLine,
           EndLoop, EndFacet>> \o Facets(n - 1)

\* solid ... endsolid around n properly nested facet blocks
WellFormed(n) == <<SolidLine>> \o Facets(n) \o <<EndSolidLine>>

Remove(lines, k) ==
    SubSeq(lines, 1, k - 1) \o SubSeq(lines, k + 1, Len(lines))

BadLines == {<<"vertex", "0", "1">>, <<"vertex", "0", "x", "1">>, << >>}

\* Text files: the well-formed ones, each with one line removed, and each
\* with one line replaced by a malformed one.
TextInputs ==
    {WellFormed(n) : n \in 0..MaxFacets}
    \cup UNION {{Remove(WellFormed(n), k) : k \in 1..Len(WellFormed(n))} :
                   n \in 0..MaxFacets}
    \cup UNION {{[WellFormed(n) EXCEPT ![k] = b] :
                    k \in 1..Len(WellFormed(n)), b \in BadLines} :
                   n \in 0..MaxFacets}

\* bytes 80..83 of a text file, read as a count, are four characters
TextFiles ==
    {[record |-> TRUE, exists |-> TRUE, ext |-> "stl", size |-> z,
      count |-> MAX_TRIANGLES + 1,
      header |-> IF StartsWith(t[1], <<"solid">>) THEN "solid" ELSE "binary",
      bad_at |-> 0, lines |-> t] :
        t \in {WellFormed(n) : n \in 0..MaxFacets}
              \cup {Remove(WellFormed(n), 1) : n \in 0..MaxFacets},
        z \in {MIN_FILE_SIZE - 1, MIN_FILE_SIZE, MAX_FILE_SIZE,
               MAX_FILE_SIZE + 1}}

\* Paths given to validate_file: present or not, named *.stl or not.
Paths ==
    {[f EXCEPT !.exists = e, !.ext = x] :
        f \in {b \in BinaryFiles : b.header = "binary" /\ b.bad_at = 0}
              \cup TextFiles,
        e \in BOOLEAN, x \in {"stl", "txt"}}

TimeWords ==
    {<<"1", "h">>, <<"2", "h">>, <<"3", "0", "m">>, <<"4", "5", "m">>,
     <<"3", "0", "s">>, <<"4", "5", "s">>, <<"2", "H">>, <<"1", "d">>,
     <<"h">>, <<",">>, <<"1", ",", "0", "s">>}

TimeStrings ==
    UNION {[1..n -> TimeWords] : n \in 0..MaxParts}

\* Settings dictionaries given to the runner: any subset of the keys of
\* PrintSettings, each key with a value other than the static default
\* (supports with either value).
FullSettings ==
    [layer_height : {30}, infill_density : {30},
     infill_pattern : {"gyroid"}, supports : BOOLEAN,
     material_type : {"PLA", "PETG"}, nozzle_temperature : {240},
     bed_temperature : {80}, print_speed : {100}]

SettingsDicts ==
    {[k \in K |-> full[k]] :
        full \in FullSettings,
        K \in SUBSET {"layer_height", "infill_density", "infill_pattern",
                      "supports", "material_type", "nozzle_temperature",
                      "bed_temperature", "print_speed"}}

\* Complete settings dictionaries that differ in the material only.
MaterialSettings == {full \in FullSettings : ~full.supports}

\* The triangle count validate_file saw in an accepted file.
ValidatedCount(f) ==
    IF f.header = "solid" THEN ScanFacets(f.lines, 1, 0).triangle_count
    ELSE f.count

\* Accepted files of both encodings, among them one at the count where the
\* written script's score formula reaches its maximum and one at the
\* largest count the validator accepts.
GeometryFiles ==
    {f \in BinaryFiles \cup TextFiles
            \cup {[ValidFile EXCEPT
                     !.count = MAX_COMPLEXITY * COMPLEXITY_SCALE,
                     !.size = BinarySize(MAX_COMPLEXITY * COMPLEXITY_SCALE)]} :
        validate_file(f).ok}

pipeline == <<jobs, queue, attempts, redelivered, backend, worker,
              workspaces, wsInput, tmpdirs, results, obs, engineRuns,
              wsEver, cause, saves>>

\* A call that is about to be made.
Calling(fn, arg) == [fn |-> fn, arg |-> arg, ret |-> << >>, done |-> FALSE]

Calls ==
    {Calling("validate_file", f) : f \in Paths}
    \cup {Calling("_validate_stl_format", f) : f \in BinaryFiles}
    \cup {Calling("_validate_ascii_stl", t) : t \in TextInputs}
    \cup {Calling("_parse_time_string", t) : t \in TimeStrings}
    \cup {Calling("_create_config_file", d) : d \in SettingsDicts}
    \cup {Calling("_run_slicer", o) : o \in EngineOutcomes}
    \cup {Calling("analyze_stl", [stl_file |-> ValidFile, print_settings |-> s,
                                  engine |-> o, artifact |-> a]) :
             s \in MaterialSettings, o \in EngineOutcomes, a \in Artifacts}
    \cup {Calling("_analyze_stl_geometry", f) : f \in GeometryFiles}

InitCalls ==
    /\ InitPipeline
    /\ call \in Calls

ValidateFileCall ==
    /\ call.fn = "validate_file" /\ ~call.done
    /\ call' = [call EXCEPT !.ret = validate_file(call.arg), !.done = TRUE]
    /\ UNCHANGED pipeline

ValidateFormatCall ==
    /\ call.fn = "_validate_stl_format" /\ ~call.done
    /\ call' = [call EXCEPT !.ret = _validate_stl_format(call.arg),
                            !.done = TRUE]
    /\ UNCHANGED pipeline

ValidateAsciiCall ==
    /\ call.fn = "_validate_ascii_stl" /\ ~call.done
    /\ call' = [call EXCEPT !.ret = _validate_ascii_stl(call.arg),
                            !.done = TRUE]
    /\ UNCHANGED pipeline

ParseTimeCall ==
    /\ call.fn = "_parse_time_string" /\ ~call.done
    /\ call' = [call EXCEPT !.ret = _parse_time_string(call.arg),
                            !.done = TRUE]
    /\ UNCHANGED pipeline

CreateConfigCall ==
    /\ call.fn = "_create_config_file" /\ ~call.done
    /\ call' = [call EXCEPT !.ret = _create_config_file(call.arg),
                            !.done = TRUE]
    /\ UNCHANGED pipeline

GeometryCall ==
    /\ call.fn = "_analyze_stl_geometry" /\ ~call.done
    /\ call' = [call EXCEPT !.ret = _analyze_stl_geometry(call.arg),
                            !.done = TRUE]
    /\ UNCHANGED pipeline

RunSlicerCall ==
    /\ call.fn = "_run_slicer" /\ ~call.done
    /\ call' = [call EXCEPT !.ret = _run_slicer(call.arg), !.done = TRUE]
    /\ UNCHANGED pipeline

AnalyzeCall ==
    /\ call.fn = "analyze_stl" /\ ~call.done
    /\ call' = [call EXCEPT
                  !.ret = PrusaSlicerRunner_analyze_stl(
                             call.arg.stl_file, call.arg.print_settings,
                             call.arg.engine, call.arg.artifact),
                  !.done = TRUE]
    /\ UNCHANGED pipeline

NextCalls ==
    \/ ValidateFileCall
    \/ ValidateFormatCall
    \/ ValidateAsciiCall
    \/ ParseTimeCall
    \/ CreateConfigCall
    \/ GeometryCall
    \/ RunSlicerCall
    \/ AnalyzeCall

\* The validator's and the runner's functions called on their own, as the
\* unit tests call them: one call per run, on any of the inputs.
SpecCalls == InitCalls /\ [][NextCalls]_vars

\* The call has returned.
Returns(fn) == call.fn = fn /\ call.done

\* GET /api/analysis/jobs/{job_id}/status takes any string as job_id and
\* hands it to get_analysis_status unchecked: here it is the id of a task
\* the result backend has a meta for.
GetStatusCall(id) ==
    /\ id \in DOMAIN backend
    /\ call' = [fn |-> "get_analysis_status", arg |-> id,
                ret |-> get_analysis_status(id), done |-> TRUE]
    /\ UNCHANGED pipeline

NextAnyId ==
    \/ Next
    \/ \E m \in Messages : GetStatusCall(m.id)

\* The pipeline, with status queries for task ids as well as job ids.
SpecAnyId == Init /\ [][NextAnyId]_vars

\* ------------------------------------------------------------------ claims
TaskOf(j) == jobs[j].task
JobMeta(j) == AsyncResult(TaskOf(j))
Terminal(j) == JobMeta(j).state \in {"SUCCESS", "FAILURE"}
RunsOf(j) == {w \in DOMAIN worker : worker[w].job = j}
Rejected(f) == ~f.record \/ ~validate_file(f).ok
ResultsOf(j) == {r \in results : r.job = j}
Message(j) == [id |-> TaskOf(j), job_id |-> j]

\* C1: whenever a job's task is SUCCESS or FAILURE, neither the job's
\* workspace directory temp_dir/<job_id> nor a runner TemporaryDirectory of
\* one of its executions exists: release precedes the terminal state.
C1_WorkspaceReleasedBeforeTerminal ==
    \A j \in DOMAIN jobs :
        Terminal(j) =>
            /\ j \notin workspaces
            /\ \A d \in tmpdirs : d[1] # TaskOf(j)

\* A job that had a workspace and ran the engine has failed.
C1_Witness ==
    \E j \in DOMAIN jobs :
        /\ JobMeta(j).state = "FAILURE"
        /\ j \in wsEver
        /\ engineRuns[j] = 1

StatusRank(s) ==
    CASE s = "none" -> 0
      [] s = "pending" -> 1
      [] s = "processing" -> 2
      [] s = "completed" -> 3
      [] s = "failed" -> 3

Reflects(resp, meta) ==
    /\ meta.state = "PROGRESS" =>
          resp.status = "processing" /\ resp.progress = meta.progress
    /\ meta.state = "SUCCESS" =>
          resp.status = "completed" /\ resp.result_id = meta.result
    /\ meta.state = "FAILURE" =>
          resp.status = "failed" /\ resp.error = meta.error

\* C3: every status query made with the job id that submit returned
\* reports the transition the worker last committed for that job.
C3_StatusReflectsCommitted ==
    [][\A j \in DOMAIN jobs :
          StatusQuery(j) => Reflects(obs', JobMeta(j))]_vars

\* C4 as stated: no job id is issued and no task queued for a file that
\* fails validation.
C4_NoJobForInvalidFile ==
    \A j \in DOMAIN jobs : validate_file(jobs[j].file).ok

\* C4 as amended: a file that fails validation still gets a job id and one
\* queued task; the rejection happens in the worker, which then never goes
\* past the validation step: no progress above 20, no engine run, no
\* SUCCESS.
C4_RejectedInWorker ==
    \A j \in DOMAIN jobs :
        ~validate_file(jobs[j].file).ok =>
            /\ Cardinality({i \in DOMAIN queue : queue[i] = Message(j)})
                  + attempts[TaskOf(j)] = 1
            /\ JobMeta(j).state # "SUCCESS"
            /\ JobMeta(j).progress <= 20
            /\ engineRuns[j] = 0
            /\ \A w \in RunsOf(j) :
                  worker[w].pc \in {"upd10", "lookup", "upd20", "validate",
                                    "except", "raise"}

\* The task of a truncated file has failed at the validation step.
C4_Witness ==
    \E j \in DOMAIN jobs :
        /\ jobs[j].file = TruncatedFile
        /\ JobMeta(j).state = "FAILURE"
        /\ cause[TaskOf(j)] = "invalid"

\* C5: no workspace directory is ever created for a job whose file is
\* rejected by the validator or whose File row or stored file is missing.
C5_NoWorkspaceForRejected ==
    \A j \in DOMAIN jobs : Rejected(jobs[j].file) => j \notin wsEver

\* Such a job has run to its end.
C5_Witness ==
    \E j \in DOMAIN jobs :
        /\ Rejected(jobs[j].file)
        /\ JobMeta(j).state = "FAILURE"
        /\ cause[TaskOf(j)] \in {"norecord", "nostored", "invalid"}

Failed(j, c) ==
    /\ JobMeta(j).state = "FAILURE"
    /\ TaskOf(j) \in DOMAIN cause
    /\ cause[TaskOf(j)] = c

\* C6: an engine timeout takes the task straight to the except block and
\* FAILURE, with an error that differs from the error of every job that
\* failed by nonzero exit or by missing output, and the engine ran once.
C6_TimeoutDistinctNoRetry ==
    /\ \A w \in DOMAIN worker :
          worker[w].cause = "timeout" =>
              /\ worker[w].pc \in {"except", "raise"}
              /\ engineRuns[worker[w].job] = 1
    /\ \A j \in DOMAIN jobs :
          Failed(j, "timeout") =>
              /\ engineRuns[j] = 1
              /\ \A k \in DOMAIN jobs :
                    (Failed(k, "nonzero") \/ Failed(k, "missing")) =>
                        JobMeta(j).error # JobMeta(k).error

\* One job failed by timeout and another by missing output.
C6_Witness ==
    \E j, k \in DOMAIN jobs : Failed(j, "timeout") /\ Failed(k, "missing")

\* C7: a job whose task is FAILURE has no AnalysisResult row.
C7_NoResultForFailedJob ==
    \A j \in DOMAIN jobs : JobMeta(j).state = "FAILURE" => ResultsOf(j) = {}

\* C8: a job whose task is SUCCESS has exactly one AnalysisResult row.
C8_OneResultPerCompletedJob ==
    \A j \in DOMAIN jobs :
        JobMeta(j).state = "SUCCESS" => Cardinality(ResultsOf(j)) = 1

\* The execution holds the workspace it prepared and has not released it.
Holds(w) == worker[w].ws = "held"

\* C9: two executions of one job never hold its workspace at the same
\* time, and the workspace of an execution that is between acquire and the
\* end of its engine run exists.
C9_SingleWorkspaceOwner ==
    /\ \A v, w \in DOMAIN worker :
          (v # w /\ worker[v].job = worker[w].job) =>
              ~(Holds(v) /\ Holds(w))
    /\ \A w \in DOMAIN worker :
          (Holds(w) /\ worker[w].pc \in {"upd50", "slicer", "engine"}) =>
              worker[w].job \in workspaces

\* C10: the progress values the worker stores for a task, and the progress
\* values successive status queries report for a job before it ends, never
\* decrease.
C10_ProgressNonDecreasing ==
    [][/\ \A t \in DOMAIN backend :
             (backend[t].state = "PROGRESS" /\ backend'[t].state = "PROGRESS")
                 => backend'[t].progress >= backend[t].progress
       /\ (/\ obs.status \in {"pending", "processing"}
           /\ obs'.job_id = obs.job_id
           /\ obs'.status \in {"pending", "processing"})
              => obs'.progress >= obs.progress]_vars

\* The worker has stored progress 100 and a query for that job was answered.
C10_Witness ==
    \E j \in DOMAIN jobs :
        /\ JobMeta(j).state = "PROGRESS"
        /\ JobMeta(j).progress = 100
        /\ obs.job_id = j

\* The error text contains the reason text.
Carries(error, reason) ==
    \E i \in 0..(Len(error) - Len(reason)) :
        SubSeq(error, i + 1, i + Len(reason)) = reason

\* C11: a status query for a job whose file the validator rejected reports
\* failed, with the validator's rejection reason in the error and with the
\* progress published before the rejection (20), not a reset one.
C11_RejectionReported ==
    [][\A j \in DOMAIN jobs :
          (StatusQuery(j) /\ Failed(j, "invalid")) =>
              /\ obs'.status = "failed"
              /\ Carries(obs'.error, validate_file(jobs[j].file).reason)
              /\ obs'.progress = ProgressAt("upd20")]_vars

\* C12 as stated: a binary file is rejected if 80 + 4 + 50 * (declared
\* count) differs from its size, and accepted otherwise.
C12_BitExactSize ==
    Returns("_validate_stl_format") =>
        (call.ret.ok <=> call.arg.size = BinarySize(call.arg.count))

\* C12 as amended: a binary file is rejected if 80 + 4 + 50 * (declared
\* count) differs from its size; a file whose size agrees is accepted
\* exactly when its header does not begin with "solid", its count is in
\* 1..1,000,000 and none of its first min(10, count) triangle records holds
\* a coordinate above the limit.
C12_SizeCountAndSample ==
    Returns("_validate_stl_format") =>
        /\ call.arg.size # BinarySize(call.arg.count) => ~call.ret.ok
        /\ call.ret.ok <=>
              /\ call.arg.size = BinarySize(call.arg.count)
              /\ call.arg.header # "solid"
              /\ call.arg.count >= 1
              /\ call.arg.count <= MAX_TRIANGLES
              /\ ~(/\ call.arg.bad_at >= 1
                   /\ call.arg.bad_at <= SAMPLE_TRIANGLES
                   /\ call.arg.bad_at <= call.arg.count)

\* A file one byte longer than its count implies was rejected for that.
C12_Witness ==
    /\ Returns("_validate_stl_format")
    /\ call.arg.count = MaxCount
    /\ call.arg.size = BinarySize(MaxCount) + 1
    /\ call.ret = Reject(<<"Invalid binary STL: size mismatch">>)

\* C13: a well-formed solid ... endsolid text file with N >= 1 properly
\* nested facet blocks is accepted and counted as exactly N triangles, and
\* the same file with any single line removed is rejected.
C13_TextValidation ==
    Returns("_validate_ascii_stl") =>
        \A n \in 1..MaxFacets :
            /\ call.arg = WellFormed(n) =>
                  /\ call.ret.ok
                  /\ ScanFacets(call.arg, 1, 0).triangle_count = n
            /\ \A k \in 1..Len(WellFormed(n)) :
                  call.arg = Remove(WellFormed(n), k) => ~call.ret.ok

\* Duration words of the form <number>h, <number>m, <number>s and what
\* each is worth in seconds.
GoodWords ==
    {<<"1", "h">>, <<"2", "h">>, <<"3", "0", "m">>, <<"4", "5", "m">>,
     <<"3", "0", "s">>, <<"4", "5", "s">>}

WordSeconds(word) ==
    CASE word = <<"1", "h">> -> 3600
      [] word = <<"2", "h">> -> 7200
      [] word = <<"3", "0", "m">> -> 1800
      [] word = <<"4", "5", "m">> -> 2700
      [] word = <<"3", "0", "s">> -> 30
      [] word = <<"4", "5", "s">> -> 45

RECURSIVE SumSeconds(_)
SumSeconds(time_str) ==
    IF time_str = << >> THEN 0
    ELSE WordSeconds(Head(time_str)) + SumSeconds(Tail(time_str))

\* Every word is a token and no unit occurs twice.
TokensOnly(time_str) ==
    /\ \A i \in DOMAIN time_str : time_str[i] \in GoodWords
    /\ \A i, j \in DOMAIN time_str :
          i # j => time_str[i][Len(time_str[i])] # time_str[j][Len(time_str[j])]

\* C14: a duration string made of tokens <number>h, <number>m, <number>s,
\* any subset in any order, parses to h + m/60 + s/3600 hours (counted
\* here in seconds), an absent token contributing zero; "1h 30m 45s" is
\* 1.5125 hours, "45m 30s" 2730 seconds, "30s" 30 seconds, "2h" 2 hours.
C14_DurationExact ==
    Returns("_parse_time_string") =>
        /\ TokensOnly(call.arg) => call.ret = SumSeconds(call.arg)
        /\ call.arg = <<<<"1", "h">>, <<"3", "0", "m">>, <<"4", "5", "s">>>>
              => call.ret = 5445
        /\ call.arg = <<<<"4", "5", "m">>, <<"3", "0", "s">>>>
              => call.ret = 2730
        /\ call.arg = <<<<"3", "0", "s">>>> => call.ret = 30
        /\ call.arg = <<<<"2", "h">>>> => call.ret = 7200

\* "45s 1h 30m" was parsed.
C14_Witness ==
    /\ Returns("_parse_time_string")
    /\ call.arg = <<<<"4", "5", "s">>, <<"1", "h">>, <<"3", "0", "m">>>>
    /\ call.ret = 5445

\* C15: a duration string in which no word carries an h, m or s (the empty
\* string included) parses to the default, 1 hour.
C15_DurationFallback ==
    (/\ Returns("_parse_time_string")
     /\ \A i \in DOMAIN call.arg : \A k \in DOMAIN call.arg[i] :
           call.arg[i][k] \notin {"h", "m", "s", "H", "M", "S"})
        => call.ret = SECONDS_PER_HOUR

\* The engine exited with code 0 within the timeout and left its output.
EngineSucceeded(o) == ~o.timed_out /\ o.returncode = 0 /\ o.output

C17_EngineClassification ==
    Returns("_run_slicer") =>
        /\ call.ret.ok <=> EngineSucceeded(call.arg)
        /\ (~call.arg.timed_out /\ call.arg.returncode = 0
                /\ ~call.arg.output) =>
              /\ call.ret.kind = "missing"
              /\ Carries(call.ret.err,
                         <<"PrusaSlicer did not generate output file">>)
        /\ (~call.arg.timed_out /\ call.arg.returncode # 0) =>
              /\ call.ret.kind = "nonzero"
              /\ Carries(call.ret.err, <<call.arg.stderr>>)

\* Exit code 0 without an output file was classified.
C17_Witness ==
    /\ Returns("_run_slicer")
    /\ ~call.arg.timed_out /\ call.arg.returncode = 0 /\ ~call.arg.output
    /\ ~call.ret.ok

\* C18: a submit puts exactly one message on the queue, for a job id that
\* no earlier submit returned, and returns without any worker or backend
\* step having happened; and a status query for a job no worker has picked
\* up reports pending with progress 0 and echoes the job id.
C18_SubmitEnqueuesOnce ==
    [][/\ (Len(queue') > Len(queue) /\ redelivered' = redelivered) =>
             \E j \in DOMAIN jobs' \ DOMAIN jobs :
                 /\ j # 0
                 /\ DOMAIN jobs' = DOMAIN jobs \cup {j}
                 /\ queue' = Append(queue, [id |-> jobs'[j].task,
                                           job_id |-> j])
                 /\ worker' = worker
                 /\ backend' = backend
       /\ \A j \in DOMAIN jobs :
             (StatusQuery(j) /\ attempts[TaskOf(j)] = 0) =>
                 obs' = [job_id |-> j, status |-> "pending", progress |-> 0,
                         result_id |-> 0, error |-> << >>]]_vars

\* The second job submitted is still queued and a query for it was
\* answered.
C18_Witness ==
    /\ Cardinality(DOMAIN jobs) = 2
    /\ \E j \in DOMAIN jobs :
          /\ attempts[TaskOf(j)] = 0
          /\ \E i \in DOMAIN queue : queue[i] = Message(j)
          /\ obs.job_id = j
          /\ obs.status = "pending"

\* C19: every job created, and so every task enqueued, has settings within
\* the ranges: layer height 0.1-0.5, infill density 0-100, nozzle
\* temperature 180-300, bed temperature 0-120, print speed 10-200.
C19_SettingsInRange ==
    \A j \in DOMAIN jobs :
        LET s == jobs[j].settings IN
        /\ s.layer_height \in 10..50
        /\ s.infill_density \in 0..100
        /\ s.nozzle_temperature \in 180..300
        /\ s.bed_temperature \in 0..120
        /\ s.print_speed \in 10..200

\* A task was enqueued and picked up by a worker.
C19_Witness ==
    \E j \in DOMAIN jobs :
        /\ jobs[j].settings \in Settings
        /\ attempts[TaskOf(j)] = 1

C21_ExtensionRejected ==
    (/\ Returns("validate_file")
     /\ call.arg.exists
     /\ call.arg.ext # "stl") =>
        call.ret = Reject(<<"File must have .stl extension">>)

\* The value the configuration holds for a setting: the caller's when the
\* dictionary has the key, the static default otherwise.
Written(d, key, value, config_key) ==
    call.ret[config_key] =
        IF Has_key(d, key) THEN value ELSE default_config[config_key]

\* C22: the written configuration holds, for layer height, fill density,
\* fill pattern, support material, nozzle temperature, bed temperature and
\* print speed, the caller's value when the setting is provided and the
\* static default when it is omitted.
C22_ConfigTranslation ==
    Returns("_create_config_file") =>
        LET d == call.arg IN
        /\ Written(d, "layer_height", d.layer_height, "layer_height")
        /\ Written(d, "infill_density", <<d.infill_density, "%">>,
                   "fill_density")
        /\ Written(d, "infill_pattern", d.infill_pattern, "fill_pattern")
        /\ Written(d, "supports", IF d.supports THEN "1" ELSE "0",
                   "support_material")
        /\ Written(d, "nozzle_temperature", d.nozzle_temperature,
                   "temperature")
        /\ Written(d, "bed_temperature", d.bed_temperature,
                   "bed_temperature")
        /\ Written(d, "print_speed", d.print_speed, "print_speed")

\* C23: the complexity score of a validated file is bounded in
\* [0, MAX_COMPLEXITY], is MAX_COMPLEXITY for a mesh dense enough to
\* saturate the score, and is not below the score of any validated file
\* with at most as many triangles.
C23_ComplexityScore ==
    Returns("_analyze_stl_geometry") =>
        LET f == call.arg
            score == call.ret.complexity_score
        IN /\ score \in 0..MAX_COMPLEXITY
           /\ ValidatedCount(f) >= MAX_COMPLEXITY * COMPLEXITY_SCALE =>
                 score = MAX_COMPLEXITY
           /\ \A g \in GeometryFiles :
                 ValidatedCount(g) <= ValidatedCount(f) =>
                    _analyze_stl_geometry(g).complexity_score <= score

PickedUp(j) == \E w \in DOMAIN worker : worker[w].job = j

\* C24: every job a worker has picked up eventually has a task in state
\* SUCCESS or FAILURE, when the worker keeps taking steps.
C24_EventuallyTerminal ==
    \A k \in 1..MaxJobs :
        PickedUp(JobUuid(k)) ~> (JobUuid(k) \in DOMAIN jobs
                                 /\ Terminal(JobUuid(k)))

\* A job whose engine wait was cut off by the timeout has failed.
C24_Witness ==
    \E j \in DOMAIN jobs : Failed(j, "timeout") /\ ~PickedUp(j)

\* C25: the engine runs for a job only after the job's file was found and
\* validated and the working copy was made; while the engine stage is
\* entered the working copy and the runner's directory exist; a result row
\* is stored only after an engine run. A job whose validation fails never
\* starts an engine.
C25_StageOrdering ==
    \A j \in DOMAIN jobs :
        /\ engineRuns[j] > 0 => (~Rejected(jobs[j].file) /\ j \in wsEver)
        /\ Rejected(jobs[j].file) => engineRuns[j] = 0
        /\ ResultsOf(j) # {} => engineRuns[j] > 0
        /\ \A w \in RunsOf(j) :
              worker[w].pc = "engine" =>
                  /\ ~Rejected(jobs[j].file)
                  /\ j \in wsInput
                  /\ w \in tmpdirs
                  /\ ResultsOf(j) = {}

\* A job went through every stage: its engine ran once, its row is stored
\* and its task succeeded.
C25_Witness ==
    \E j \in DOMAIN jobs :
        /\ engineRuns[j] = 1
        /\ ResultsOf(j) # {}
        /\ JobMeta(j).state = "SUCCESS"

\* C26: executions of different tasks work in different workspace
\* directories (temp_dir/<job_id>), and a step that releases the workspace
\* of one job, on the success path or in the except block, leaves the
\* workspace directory and the working copy of every other job as they
\* were.
C26_WorkspacePerJob ==
    [][/\ \A v, w \in DOMAIN worker :
             worker[v].task # worker[w].task => worker[v].job # worker[w].job
       /\ \A w \in DOMAIN worker :
             (Cleanup(w) \/ Except(w)) =>
                 \A k \in DOMAIN jobs \ {worker[w].job} :
                    /\ (k \in workspaces) <=> (k \in workspaces')
                    /\ (k \in wsInput) <=> (k \in wsInput')]_vars

\* One job's workspace has been released while another job, still running,
\* has its workspace and working copy.
C26_Witness ==
    \E j, k \in DOMAIN jobs :
        /\ j # k
        /\ j \in wsEver /\ j \notin workspaces /\ ~PickedUp(j)
        /\ PickedUp(k) /\ k \in workspaces /\ k \in wsInput

\* C27: the filament mass depends on the material: for the same engine
\* output with a filament length above zero, a job whose material_type is
\* not PLA (a material of another density) gets a mass different from the
\* one the same job gets with material_type PLA.
C27_PerMaterialDensity ==
    (/\ Returns("analyze_stl")
     /\ call.ret.ok
     /\ call.ret.metrics.filament_grams > 0
     /\ call.arg.print_settings.material_type # "PLA") =>
        call.ret.metrics.filament_grams #
            PrusaSlicerRunner_analyze_stl(
                call.arg.stl_file,
                [call.arg.print_settings EXCEPT !.material_type = "PLA"],
                call.arg.engine, call.arg.artifact).metrics.filament_grams

\* C28: a status query answers failed only when the meta stored under the
\* queried id is FAILURE; for PENDING, STARTED and PROGRESS it answers
\* pending or processing.
C28_FailedOnlyForFailure ==
    [][\A m \in Messages :
          GetStatusCall(m.id) =>
              /\ call'.ret.status = "failed" =>
                    AsyncResult(m.id).state = "FAILURE"
              /\ AsyncResult(m.id).state \in {"PENDING", "STARTED",
                                              "PROGRESS"} =>
                    call'.ret.status \in {"pending", "processing"}]_vars

Committed(r) == \E row \in results : row.id = r

\* C29: whenever a task is recorded as SUCCESS with result id r, and
\* whenever a status query has answered completed with result reference r,
\* an AnalysisResult row with id r is committed.
C29_ResultCommittedBeforeCompleted ==
    /\ \A t \in DOMAIN backend :
          backend[t].state = "SUCCESS" => Committed(backend[t].result)
    /\ (Returns("get_analysis_status") /\ call.ret.status = "completed") =>
          Committed(call.ret.result_id)
    /\ obs.status = "completed" => Committed(obs.result_id)

\* A status query has answered completed with the id of a committed row.
C29_Witness ==
    /\ Returns("get_analysis_status")
    /\ call.ret.status = "completed"
    /\ Committed(call.ret.result_id)

WellFormedLine(line) ==
    \/ line.tag = "filament" /\ Floats(line.value)
    \/ line.tag = "time" /\ line.eq
    \/ line.tag = "support"

\* C30: a malformed annotation costs only its own metric: whenever the
\* engine run succeeded and the artifact is readable, every well-formed
\* annotation of the artifact, before or after a malformed line, is in the
\* returned metrics.
C30_MalformedLineIsLocal ==
    (/\ Returns("analyze_stl")
     /\ EngineSucceeded(call.arg.engine)
     /\ call.arg.artifact.readable) =>
        LET lines == call.arg.artifact.lines
            good(tag) == {i \in DOMAIN lines :
                             lines[i].tag = tag /\ WellFormedLine(lines[i])}
        IN /\ call.ret.ok
           /\ good("support") # {} => call.ret.metrics.supports_required
           /\ good("filament") # {} =>
                 call.ret.metrics.filament_grams \in
                    {FilamentGrams(FloatOf(lines[i].value)) :
                        i \in good("filament")}
           /\ good("time") # {} =>
                 call.ret.metrics.print_time_hours \in
                    {_parse_time_string(lines[i].value) : i \in good("time")}

====
